---- MODULE Spec2Model ----
(***************************************************************************)
(* A model of puchikarui (src/puchikarui/puchikarui.py): the query         *)
(* builder, the row mapper, the execution context and its connection       *)
(* lifecycle, the per-table convenience API and the data source's setup    *)
(* on open.  The SQL engine (sqlite3) is modelled by Execute and the       *)
(* transaction rules of Python's sqlite3 module.                           *)
(***************************************************************************)
EXTENDS Integers, Sequences, FiniteSets, TLC

(***************************************************************************)
(* Bounds of the model.                                                    *)
(***************************************************************************)
\* row ids the engine may hold are 1..MaxId
MaxId == 2
\* number of explicitly opened execution contexts (slots 1..MaxCtx)
MaxCtx == 1

(***************************************************************************)
(* Values.  Python None and SQL NULL are NULL; '' is EmptyStr; the other   *)
(* scalars are the small integers of Vals.  A parameter that is a          *)
(* sequence and may be None has a sentinel of the sequence's type.         *)
(***************************************************************************)
NULL == 0 - 1
EmptyStr == 0
NoArg == 0 - 9
Vals == {1, 2}
IdRange == 1..MaxId
NoneCols == <<"None">>
NoneVals == <<NoArg>>
NoneWhere == <<[c |-> "None", op |-> "None"]>>

\* Python truth value of a scalar, of a column list, of a parameter list,
\* of a where fragment
TruthyVal(v) == v # NULL /\ v # 0
TruthyCols(cs) == cs # NoneCols /\ cs # <<>>
TruthyVals(vs) == vs # NoneVals /\ vs # <<>>
TruthyWhere(w) == w # NoneWhere /\ w # <<>>

\* s[i:] of Python, for any integer i (a negative i counts from the end,
\* and -0 is 0)
PySliceFrom(s, i) ==
    LET n == Len(s)
        b == IF i < 0 THEN (IF n + i < 0 THEN 0 ELSE n + i)
                      ELSE (IF i > n THEN n ELSE i)
    IN  SubSeq(s, b + 1, n)

Range(s) == {s[i] : i \in 1..Len(s)}

(***************************************************************************)
(* Table metadata (class Table): name, columns, proto, id_cols.            *)
(***************************************************************************)
PersonCols == <<"ID", "name">>

Table(name, columns, proto, id_cols) ==
    [name |-> name, columns |-> columns, proto |-> proto, id_cols |-> id_cols]

\* the tables of the schema: person as the tests register it, and the same
\* SQL table declared without proto, without id_cols, with an empty id_cols
\* and with two id columns
TPerson == Table("person", PersonCols, TRUE, <<"ID">>)
TPlain == Table("person", PersonCols, FALSE, <<"ID">>)
TNoId == Table("person", PersonCols, TRUE, NoneCols)
TEmptyId == Table("person", PersonCols, TRUE, <<>>)
TTwoId == Table("person", PersonCols, TRUE, <<"ID", "name">>)
\* the same SQL table registered with an empty column list
TNoCols == Table("person", <<>>, FALSE, NoneCols)
TableObjs == {TPerson, TPlain, TNoId, TEmptyId, TTwoId, TNoCols}

(***************************************************************************)
(* QueryBuilder.  A statement is a record of the parts of its text: the    *)
(* verb, the table, the column list, the number of VALUES placeholders,    *)
(* the WHERE fragment (a conjunction of <column> <op> ? conditions),       *)
(* ORDER BY and LIMIT.  exc names the exception the builder raised.        *)
(***************************************************************************)
Query(verb, tbl, cols, nph, where, orderby, limit) ==
    [verb |-> verb, tbl |-> tbl, cols |-> cols, nph |-> nph, where |-> where,
     orderby |-> orderby, limit |-> limit, exc |-> ""]

\* the optional clauses build_select appends after the table name, in the
\* order of its if statements
select_clauses(where, orderby, limit) ==
    (IF TruthyWhere(where) THEN <<"WHERE">> ELSE <<>>)
    \o (IF orderby # "None" /\ orderby # "" THEN <<"ORDER BY">> ELSE <<>>)
    \o (IF TruthyVal(limit) THEN <<"LIMIT">> ELSE <<>>)

build_select(table, where, orderby, limit, columns) ==
    LET cols == IF ~TruthyCols(columns) THEN table.columns ELSE columns
    IN  Query("SELECT", table.name, cols, 0,
              IF TruthyWhere(where) THEN where ELSE <<>>,
              IF orderby # "None" /\ orderby # "" THEN orderby ELSE "",
              IF TruthyVal(limit) THEN limit ELSE NULL)
        @@ [clauses |-> select_clauses(where, orderby, limit)]

build_insert(table, values, columns) ==
    LET cols == IF ~TruthyCols(columns) THEN table.columns ELSE columns
        column_names == IF Len(values) < Len(cols)
                        THEN PySliceFrom(cols, 0 - Len(values))
                        ELSE cols
    IN  Query("INSERT", table.name, column_names, Len(values), <<>>, "", NULL)

build_update(table, where, columns) ==
    LET cols == IF columns = NoneCols THEN table.columns ELSE columns
    IN  Query("UPDATE", table.name, cols, 0,
              IF TruthyWhere(where) THEN where ELSE <<>>, "", NULL)

\* the else branch reads self.name, which QueryBuilder does not have
build_delete(table, where) ==
    IF TruthyWhere(where)
    THEN Query("DELETE", table.name, <<>>, 0, where, "", NULL)
    ELSE [Query("DELETE", "", <<>>, 0, <<>>, "", NULL)
             EXCEPT !.exc = "AttributeError"]

(***************************************************************************)
(* The SQL engine.  A database is the person table (present once a setup   *)
(* script created it) and its rows, one per row id.  ID is the table's     *)
(* INTEGER PRIMARY KEY: a NULL ID on insert is replaced by max(ID) + 1.    *)
(***************************************************************************)
EmptyDB == [hasTable |-> FALSE, rows |-> {}]

Row(id, name) == [ID |-> id, name |-> name]

Ids(db) == {r.ID : r \in db.rows}

MaxOf(S) == CHOOSE m \in S : \A x \in S : x <= m

NextId(db) == IF db.rows = {} THEN 1 ELSE MaxOf(Ids(db)) + 1

\* one condition <column> <op> ? against its bound value; a comparison with
\* NULL is never true
CondHolds(row, cond, p) ==
    IF p = NULL \/ row[cond.c] = NULL THEN FALSE
    ELSE IF cond.op = "=" THEN row[cond.c] = p
    ELSE row[cond.c] > p

Matches(row, where, ps) ==
    \A i \in 1..Len(where) : CondHolds(row, where[i], ps[i])

\* the rows of S in the order of the column key, ties in row id order
RECURSIVE SortRows(_, _)
SortRows(S, key) ==
    IF S = {} THEN <<>>
    ELSE LET first == CHOOSE r \in S : \A o \in S :
                          \/ r[key] < o[key]
                          \/ r[key] = o[key] /\ r.ID <= o.ID
         IN  <<first>> \o SortRows(S \ {first}, key)

\* number of ? in the statement: VALUES or SET placeholders, then WHERE's
Placeholders(q) ==
    (IF q.verb = "INSERT" THEN q.nph
     ELSE IF q.verb = "UPDATE" THEN Len(q.cols) ELSE 0) + Len(q.where)

EngineResult(exc, db, rows, lastrowid) ==
    [exc |-> exc, db |-> db, rows |-> rows, lastrowid |-> lastrowid]

ExecSelect(db, q, ps) ==
    LET hit == {r \in db.rows : Matches(r, q.where, ps)}
        ordered == SortRows(hit, IF q.orderby = "" THEN "ID" ELSE q.orderby)
        cut == IF q.limit = NULL \/ q.limit >= Len(ordered) THEN ordered
               ELSE SubSeq(ordered, 1, q.limit)
    IN  EngineResult("", db,
            [i \in 1..Len(cut) |-> [j \in 1..Len(q.cols) |-> cut[i][q.cols[j]]]],
            NULL)

ExecInsert(db, q, ps) ==
    LET given(c) == CHOOSE j \in 1..Len(q.cols) : q.cols[j] = c
        val(c) == IF c \in Range(q.cols) THEN ps[given(c)] ELSE NULL
        id == IF val("ID") = NULL THEN NextId(db) ELSE val("ID")
    IN  IF Len(q.cols) # q.nph THEN EngineResult("OperationalError", db, <<>>, NULL)
        ELSE IF id \in Ids(db) THEN EngineResult("IntegrityError", db, <<>>, NULL)
        ELSE IF id \notin IdRange THEN EngineResult("BOUND", db, <<>>, NULL)
        ELSE EngineResult("", [db EXCEPT !.rows = @ \cup {Row(id, val("name"))}],
                          <<>>, id)

ExecUpdate(db, q, ps) ==
    LET n == Len(q.cols)
        wps == SubSeq(ps, n + 1, Len(ps))
        hit == {r \in db.rows : Matches(r, q.where, wps)}
        \* a column named twice takes the last assignment
        last(c) == CHOOSE j \in 1..n : q.cols[j] = c /\ \A k \in (j+1)..n : q.cols[k] # c
        upd(r) == [c \in DOMAIN r |-> IF c \in Range(q.cols) THEN ps[last(c)] ELSE r[c]]
        new == (db.rows \ hit) \cup {upd(r) : r \in hit}
    IN  IF \E r \in hit : upd(r).ID = NULL
        THEN EngineResult("IntegrityError", db, <<>>, NULL)
        ELSE IF Cardinality(Ids([db EXCEPT !.rows = new])) # Cardinality(db.rows)
        THEN EngineResult("IntegrityError", db, <<>>, NULL)
        ELSE IF \E r \in new : r.ID \notin IdRange
        THEN EngineResult("BOUND", db, <<>>, NULL)
        ELSE EngineResult("", [db EXCEPT !.rows = new], <<>>, NULL)

ExecDelete(db, q, ps) ==
    EngineResult("", [db EXCEPT !.rows = {r \in @ : ~Matches(r, q.where, ps)}],
                 <<>>, NULL)

\* cursor.execute(query, params): the statement against the database
Execute(db, q, ps) ==
    IF ~db.hasTable \/ (q.verb \in {"SELECT", "INSERT", "UPDATE"} /\ q.cols = <<>>)
    THEN EngineResult("OperationalError", db, <<>>, NULL)
    ELSE IF Len(ps) # Placeholders(q)
    THEN EngineResult("ProgrammingError", db, <<>>, NULL)
    ELSE IF q.verb = "SELECT" THEN ExecSelect(db, q, ps)
    ELSE IF q.verb = "INSERT" THEN ExecInsert(db, q, ps)
    ELSE IF q.verb = "UPDATE" THEN ExecUpdate(db, q, ps)
    ELSE ExecDelete(db, q, ps)

(***************************************************************************)
(* Row mapper (Table.to_table, to_row, to_obj, module to_obj).  A mapped   *)
(* record is a function from field names to values.                        *)
(***************************************************************************)
\* Person(): the record type's zero-argument construction
ProtoNew == [ID |-> NULL, name |-> EmptyStr]

\* a to_obj that constructs the record and assigns nothing: C6_RoundTrip
\* does not hold of it
to_obj_unassigned(columns, row_tuple, field_map) == ProtoNew

\* the keyword arguments of a call that passes none
NoFieldMap == [f \in {} |-> ""]

\* to_obj(cls, dict(zip(columns, row)), *columns, **field_map): construct,
\* then update_data assigns every listed field from the row, to the field
\* field_map names for it if it names one
to_obj(columns, row_tuple, field_map) ==
    LET target(j) == IF columns[j] \in DOMAIN field_map THEN field_map[columns[j]]
                     ELSE columns[j]
        at(g) == CHOOSE j \in 1..Len(columns) : target(j) = g
    IN  [g \in DOMAIN ProtoNew \cup {target(j) : j \in 1..Len(columns)} |->
            IF \E j \in 1..Len(columns) : target(j) = g THEN row_tuple[at(g)]
            ELSE ProtoNew[g]]

\* Table.to_row: the namedtuple over the given column list
to_row(columns, row_tuple) ==
    LET at(f) == CHOOSE j \in 1..Len(columns) : columns[j] = f
    IN  [f \in Range(columns) |-> row_tuple[at(f)]]

\* a to_obj that maps to the plain row of the selected columns, without
\* constructing the record type: C23_ColumnSubset does not hold of it
table_to_obj_plain(table, row_tuple, columns) ==
    to_row(IF ~TruthyCols(columns) THEN table.columns ELSE columns, row_tuple)

\* Table.to_obj, which passes no field_map on
table_to_obj(table, row_tuple, columns) ==
    IF ~table.proto THEN to_row(table.columns, row_tuple)
    ELSE to_obj(IF ~TruthyCols(columns) THEN table.columns ELSE columns, row_tuple,
                NoFieldMap)

\* a cursor that is false when it holds no row: C7_NoMatchNoError does not
\* hold of it
CursorTruthy_rows(cursor) == cursor.rows # <<>>

\* truth value of what cursor.execute returns: a sqlite3.Cursor, an object
\* with neither __bool__ nor __len__, whatever rows it holds
CursorTruthy(cursor) == TRUE

\* Table.to_table
to_table(table, cursor, columns) ==
    IF ~CursorTruthy(cursor) THEN [exc |-> "ValueError", objs |-> <<>>]
    ELSE [exc |-> "",
          objs |-> [i \in 1..Len(cursor.rows) |->
                      IF table.proto THEN table_to_obj(table, cursor.rows[i], columns)
                      ELSE IF TruthyCols(columns) THEN to_row(columns, cursor.rows[i])
                      ELSE to_row(table.columns, cursor.rows[i])]]

(***************************************************************************)
(* ExecutionContext.  x is the context: conn (self.conn is not None),      *)
(* schema (self.schema is not None), auto_commit, db (what its connection   *)
(* reads), intxn (the connection has                                       *)
(* an open transaction: sqlite3 begins one before INSERT/UPDATE/DELETE)    *)
(* locked (another connection of the same file has one) and file (the     *)
(* path is a file, not ':memory:').  An                                   *)
(* operation yields the context, what it returned (kind: "list", "obj",    *)
(* "None", "int", "cursor") or the exception it raised, did: the context   *)
(* method a delegating caller ended in, and q, ps: the statement it built  *)
(* and the parameters it handed to execute.                                *)
(***************************************************************************)
NoQuery == Query("", "", <<>>, 0, <<>>, "", NULL)

Res(x, kind, objs, val, exc) ==
    [x |-> x, kind |-> kind, objs |-> objs, val |-> val, exc |-> exc, did |-> "",
     q |-> NoQuery, ps |-> <<>>]

\* r, with the statement and the parameters its call handed to execute
Sent(r, q, ps) == [r EXCEPT !.q = q, !.ps = ps]

Raise(x, exc) == Res(x, "raise", <<>>, NULL, exc)

Did(r, name) == [r EXCEPT !.did = name]

\* what the cursor holds after the engine's answer r to statement q
Executed(x, q, r) ==
    IF q.verb # "SELECT" /\ ~x.intxn /\ x.locked
    THEN [x |-> x, exc |-> "OperationalError", rows |-> <<>>, lastrowid |-> NULL]
    ELSE IF r.exc # ""
    THEN [x |-> x, exc |-> r.exc, rows |-> <<>>, lastrowid |-> NULL]
    ELSE [x |-> IF q.verb = "SELECT" THEN x
                ELSE [x EXCEPT !.db = r.db, !.intxn = TRUE],
          exc |-> "", rows |-> r.rows, lastrowid |-> r.lastrowid]

\* ExecutionContext.execute: cur.execute(query, params) if params, else
\* cur.execute(query)
execute(x, q, params) ==
    Executed(x, q, Execute(x.db, q, IF TruthyVals(params) THEN params ELSE <<>>))

\* table.to_table(cur, columns) as the result of select_record
Selected(x, table, columns, cur) ==
    LET t == to_table(table, cur, columns)
    IN  IF cur.exc # "" THEN Raise(x, cur.exc)
        ELSE IF t.exc # "" THEN Raise(x, t.exc)
        ELSE Res(x, "list", t.objs, NULL, "")

\* self.schema.query_builder, on a context whose schema is None
NoBuilder(x) == Raise(x, "AttributeError")

select_record(x, table, where, values, orderby, limit, columns) ==
    LET query == build_select(table, where, orderby, limit, columns)
    IN  IF ~x.schema THEN NoBuilder(x)
        ELSE Sent(Selected(x, table, columns, execute(x, query, values)),
                  query, values)

\* return self.cur.lastrowid
LastRowId(x, cur) ==
    IF cur.exc # "" THEN Raise(x, cur.exc)
    ELSE Res(cur.x, "int", <<>>, cur.lastrowid, "")

insert_record(x, table, values, columns) ==
    LET query == build_insert(table, values, columns)
    IN  IF ~x.schema THEN NoBuilder(x)
        ELSE Sent(LastRowId(x, execute(x, query, values)), query, values)

\* return of the cursor execute gave
Cursor(x, cur) ==
    IF cur.exc # "" THEN Raise(x, cur.exc)
    ELSE Res(cur.x, "cursor", <<>>, NULL, "")

\* an update_record that puts where_values first: C10_UpdateBinding does not
\* hold of it
update_record_where_first(x, table, new_values, where, where_values, columns) ==
    LET query == build_update(table, where, columns)
        params == IF TruthyVals(where_values)
                  THEN where_values \o new_values ELSE new_values
    IN  IF ~x.schema THEN Raise(x, "AttributeError")
        ELSE Sent(Cursor(x, execute(x, query, params)), query, params)

update_record(x, table, new_values, where, where_values, columns) ==
    LET query == build_update(table, where, columns)
        params == IF TruthyVals(where_values)
                  THEN new_values \o where_values ELSE new_values
    IN  IF ~x.schema THEN NoBuilder(x)
        ELSE Sent(Cursor(x, execute(x, query, params)), query, params)

\* a delete_record that executes the statement without its where fragment:
\* C21_DeleteFrame does not hold of it
delete_record_every_row(x, table, where, values) ==
    LET query == [build_delete(table, where) EXCEPT !.where = <<>>]
    IN  IF ~x.schema THEN NoBuilder(x)
        ELSE IF query.exc # "" THEN Raise(x, query.exc)
        ELSE Sent(Cursor(x, execute(x, query, <<>>)), query, <<>>)

delete_record(x, table, where, values) ==
    LET query == build_delete(table, where)
    IN  IF ~x.schema THEN NoBuilder(x)
        ELSE IF query.exc # "" THEN Raise(x, query.exc)
        ELSE Sent(Cursor(x, execute(x, query, values)), query, values)

\* ' AND '.join(['{c}=?' ... for c in table._id_cols])
IdWhere(table) == [i \in 1..Len(table.id_cols) |-> [c |-> table.id_cols[i], op |-> "="]]

\* tuple(getattr(obj_data, colname) for colname in columns)
FieldsOf(obj, columns) == [i \in 1..Len(columns) |-> obj[columns[i]]]

\* results[0] if results else None
FirstOrNone(x, results) ==
    IF results.exc # "" THEN results
    ELSE IF results.objs # <<>> /\ Len(results.objs) > 0
    THEN Sent(Res(x, "obj", <<results.objs[1]>>, NULL, ""), results.q, results.ps)
    ELSE Sent(Res(x, "None", <<>>, NULL, ""), results.q, results.ps)

\* a method that ends without a return statement
ReturnsNone(r) ==
    IF r.exc # "" THEN r ELSE Sent(Res(r.x, "None", <<>>, NULL, ""), r.q, r.ps)

select_object_by_id(x, table, ids, columns) ==
    IF table.id_cols = NoneCols THEN Raise(x, "TypeError")
    ELSE FirstOrNone(x, select_record(x, table, IdWhere(table), ids, "None", NULL,
                                      columns))

insert_object(x, table, obj_data, columns) ==
    LET cols == IF ~TruthyCols(columns) THEN table.columns ELSE columns
    IN  Did(insert_record(x, table, FieldsOf(obj_data, cols), cols), "insert_object")

\* an update_object without the identity condition:
\* C20_UpdateObjectFrame does not hold of it
update_object_every_row(x, table, obj_data, columns) ==
    IF table.id_cols = NoneCols THEN Did(Raise(x, "TypeError"), "update_object")
    ELSE LET cols == IF ~TruthyCols(columns) THEN table.columns ELSE columns
         IN  Did(ReturnsNone(update_record(x, table, FieldsOf(obj_data, cols),
                                           <<>>, <<>>, cols)),
                 "update_object")

update_object(x, table, obj_data, columns) ==
    IF table.id_cols = NoneCols THEN Did(Raise(x, "TypeError"), "update_object")
    ELSE LET cols == IF ~TruthyCols(columns) THEN table.columns ELSE columns
         IN  Did(ReturnsNone(update_record(x, table, FieldsOf(obj_data, cols),
                                           IdWhere(table),
                                           FieldsOf(obj_data, table.id_cols), cols)),
                 "update_object")

delete_object(x, table, obj_data) ==
    IF table.id_cols = NoneCols THEN Raise(x, "TypeError")
    ELSE ReturnsNone(delete_record(x, table, IdWhere(table),
                                   FieldsOf(obj_data, table.id_cols)))

\* an insert that stores the new identity in the object: C24_ObjectUntouched
\* does not hold of it
obj_after_identified(obj_data, r) ==
    IF r.exc = "" /\ r.kind = "int" THEN [obj_data EXCEPT !.ID = r.val] ELSE obj_data

\* the caller's object after save or insert_object has returned r: both read
\* it with getattr and assign nothing to it, lastrowid is only returned
obj_after(obj_data, r) == obj_data

\* what the engine does to the calls of a closing context: nothing, or it
\* makes conn.commit() or conn.close() raise
Fails == {"", "commit", "close"}

\* ExecutionContext.commit: sqlite3 writes the transaction to the file; an
\* exception of conn.commit() is logged and the transaction stays pending
commit(x, store, fail) ==
    IF x.conn /\ fail = "commit"
    THEN [x |-> x, store |-> store]
    ELSE IF x.conn /\ x.intxn
    THEN [x |-> [x EXCEPT !.intxn = FALSE],
          store |-> IF x.file THEN [store EXCEPT !.db = x.db] ELSE store]
    ELSE [x |-> x, store |-> store]

\* a close that never commits: C1_ScopeRelease does not hold of it
close_skip_commit(x, store, fail) ==
    [x |-> [x EXCEPT !.conn = FALSE, !.intxn = FALSE, !.db = EmptyDB],
     store |-> store, exc |-> "", released |-> TRUE]

\* a close without its except and finally clauses: C15_ExitFailureSwallowed
\* does not hold of it
close_raises(x, store, fail) ==
    LET c == IF x.conn /\ x.auto_commit THEN commit(x, store, fail)
             ELSE [x |-> x, store |-> store]
    IN  IF x.conn /\ fail = "close"
        THEN [x |-> [c.x EXCEPT !.intxn = FALSE], store |-> c.store,
              exc |-> "OperationalError", released |-> FALSE]
        ELSE [x |-> [c.x EXCEPT !.conn = FALSE, !.intxn = FALSE, !.db = EmptyDB],
              store |-> c.store, exc |-> "", released |-> TRUE]

\* ExecutionContext.close: commit if auto_commit, close the connection
\* (an open transaction is rolled back), and self.conn = None; an exception
\* of conn.close() is logged and self.conn = None all the same.  released
\* tells whether conn.close() went through; exc is what close() raises.
close(x, store, fail) ==
    LET c == IF x.conn /\ x.auto_commit THEN commit(x, store, fail)
             ELSE [x |-> x, store |-> store]
    IN  [x |-> [c.x EXCEPT !.conn = FALSE, !.intxn = FALSE, !.db = EmptyDB],
         store |-> c.store, exc |-> "",
         released |-> ~(x.conn /\ fail = "close")]

\* the truth value of what __exit__ returns (None): whether the with
\* statement swallows the exception of its body
ExitSuppresses == FALSE

(***************************************************************************)
(* TableContext.                                                           *)
(***************************************************************************)
tc_select(x, table, where, values, columns) ==
    select_record(x, table, where, values, "None", NULL, columns)

tc_select_single(x, table, where, values, columns) ==
    FirstOrNone(x, select_record(x, table, where, values, "None", NULL, columns))

tc_insert(x, table, values, columns) == insert_record(x, table, values, columns)

tc_update(x, table, new_values, where, where_values, columns) ==
    update_record(x, table, new_values, where, where_values, columns)

tc_delete(x, table, where, values) == delete_record(x, table, where, values)

tc_by_id(x, table, args, columns) == select_object_by_id(x, table, args, columns)

\* a loop that looks at the first id column alone: C2_SaveChoice does not
\* hold of it
Existed_first(obj, id_cols, n) ==
    IF n = 0 THEN TRUE ELSE TruthyVal(obj[id_cols[1]])

\* the loop of save: existed = existed and getattr(obj, i), from True
RECURSIVE Existed(_, _, _)
Existed(obj, id_cols, n) ==
    IF n = 0 THEN TRUE
    ELSE Existed(obj, id_cols, n - 1) /\ TruthyVal(obj[id_cols[n]])

tc_save(x, table, obj, columns) ==
    IF table.id_cols = NoneCols THEN Raise(x, "TypeError")
    ELSE IF Existed(obj, table.id_cols, Len(table.id_cols))
    THEN update_object(x, table, obj, columns)
    ELSE insert_object(x, table, obj, columns)

tc_delete_obj(x, table, obj) == delete_object(x, table, obj)

(***************************************************************************)
(* DataSource and the state of the program.                                *)
(*   ds        the data source: path, whether setup_file / setup_script    *)
(*             were given, auto_commit, and schema: the data source holds  *)
(*             the schema (Schema built it from the location) or None (it  *)
(*             was built first and handed to Schema)                       *)
(*   disk      the file at ds.path: exists, and its database (a file of    *)
(*             size zero holds EmptyDB)                                    *)
(*   ctx       the execution contexts the caller opened with `with`        *)
(*   setupDone an open has run the setup scripts to their end before       *)
(*   leaked    a connection that DataSource.open made is open and no       *)
(*             context holds it: open raised after creating the context    *)
(*   attrs     per context, the table contexts __getattr__ has stored in   *)
(*             the context object: name -> object (0: none stored)        *)
(*   last      the call in progress and its outcome, until the caller      *)
(*             has taken it                                                *)
(***************************************************************************)
VARIABLES ds, disk, ctx, setupDone, leaked, attrs, last

vars == <<ds, disk, ctx, setupDone, leaked, attrs, last>>

\* schema._tables after add_table('person', ..., alias='people') and
\* add_table('commit', ...): registered name -> table name
Tables == [person |-> "person", people |-> "person", commit |-> "commit"]

\* the names looked up on a context: the registered ones and one that is not
Names == DOMAIN Tables \cup {"nosuch"}

\* what an ExecutionContext has by itself: the attributes __init__ sets and
\* the methods of the class
OwnAttrs ==
    {"conn", "cur", "schema", "auto_commit", "commit", "select_record",
     "insert_record", "update_record", "delete_record", "select_object_by_id",
     "insert_object", "update_object", "delete_object", "execute",
     "executescript", "executefile", "close"}

NoAttrs == [n \in Names |-> 0]

Ctx == 1..MaxCtx
NoCtx == [inscope |-> FALSE, conn |-> FALSE, schema |-> FALSE,
          auto_commit |-> FALSE, intxn |-> FALSE, db |-> EmptyDB]
Idle == [op |-> "idle"]
IsFile == ds.path = "file"

\* the setup file of the tests creates the table, the setup script inserts
\* a row into it
RunSetupFile(db) ==
    IF db.hasTable THEN [exc |-> "OperationalError", db |-> db]
    ELSE [exc |-> "", db |-> [db EXCEPT !.hasTable = TRUE]]
RunSetupScript(db) ==
    IF ~db.hasTable THEN [exc |-> "OperationalError", db |-> db]
    ELSE [exc |-> "", db |-> [db EXCEPT !.rows = @ \cup {Row(NextId(db), 1)}]]

\* os.path.isfile(path) and os.path.getsize(path) == 0
isfile(store) == IsFile /\ store.exists
SizeZero(store) == store.db = EmptyDB

\* a condition that is always true, and one that is a one-time flag:
\* C3_NoSetupOnContent does not hold of the first, C4_SetupFollowsContent
\* does not hold of the second
SetupRequired_always(store) == TRUE
SetupRequired_once(store) == ~setupDone /\ (~isfile(store) \/ SizeZero(store))

\* a condition that holds of files alone: C16_MemoryAlwaysFresh does not
\* hold of it
SetupRequired_file(store) == IsFile /\ (~isfile(store) \/ SizeZero(store))

\* the condition of DataSource.open under which setup is run
SetupRequired(store) == ~isfile(store) \/ SizeZero(store)

\* ExecutionContext.__init__: sqlite3.connect creates a missing file, empty
Connect(store, locked, ac, schema) ==
    [x |-> [conn |-> TRUE, file |-> IsFile, schema |-> schema,
            auto_commit |-> ac, intxn |-> FALSE,
            locked |-> locked, db |-> IF IsFile THEN store.db ELSE EmptyDB],
     store |-> IF IsFile THEN [store EXCEPT !.exists = TRUE] ELSE store]

\* an open that runs the setup script before the setup file:
\* C19_SetupOrder does not hold of it
ds_open_script_first(store, locked, auto_commit, schema) ==
    LET ac == IF auto_commit # "None" THEN auto_commit = "True" ELSE ds.auto_commit
        k == Connect(store, locked, ac, IF ~schema THEN ds.schema ELSE schema)
        need == SetupRequired(store)
        s == IF need /\ ds.setup_script THEN RunSetupScript(k.x.db)
             ELSE [exc |-> "", db |-> k.x.db]
        f == IF need /\ ds.setup_file /\ s.exc = "" THEN RunSetupFile(s.db)
             ELSE s
        x == [k.x EXCEPT !.db = f.db]
    IN  [exc |-> f.exc, x |-> x,
         store |-> IF IsFile THEN [k.store EXCEPT !.db = f.db] ELSE k.store,
         need |-> need,
         ran |-> need /\ (ds.setup_file \/ ds.setup_script)]

\* DataSource.open(auto_commit, schema), schema TRUE for a Schema passed:
\* executescript runs outside a transaction,
\* so what a script did is in the file at once.  When a script raises, exc
\* is its exception: open has created the context and does not return it.
ds_open(store, locked, auto_commit, schema) ==
    LET ac == IF auto_commit # "None" THEN auto_commit = "True" ELSE ds.auto_commit
        k == Connect(store, locked, ac, IF ~schema THEN ds.schema ELSE schema)
        need == SetupRequired(store)
        f == IF need /\ ds.setup_file THEN RunSetupFile(k.x.db)
             ELSE [exc |-> "", db |-> k.x.db]
        s == IF need /\ ds.setup_script /\ f.exc = "" THEN RunSetupScript(f.db)
             ELSE f
        x == [k.x EXCEPT !.db = s.db]
    IN  [exc |-> s.exc, x |-> x,
         store |-> IF IsFile THEN [k.store EXCEPT !.db = s.db] ELSE k.store,
         need |-> need,
         ran |-> need /\ (ds.setup_file \/ ds.setup_script)]

\* what context c reads, and whether another connection holds the file's
\* write lock
View(c) == IF ~IsFile \/ ctx[c].intxn THEN ctx[c].db ELSE disk.db
Locked(c) == IsFile /\ \E d \in Ctx : d # c /\ ctx[d].intxn

XOf(c) == [conn |-> ctx[c].conn, file |-> IsFile, schema |-> ctx[c].schema,
           auto_commit |-> ctx[c].auto_commit,
           intxn |-> ctx[c].intxn, locked |-> Locked(c), db |-> View(c)]

Put(x, inscope) ==
    [inscope |-> inscope, conn |-> x.conn, schema |-> x.schema,
     auto_commit |-> x.auto_commit,
     intxn |-> x.intxn,
     db |-> IF x.conn /\ (~x.file \/ x.intxn) THEN x.db ELSE EmptyDB]

\* the start of a program: the data source of the schema, no file, no
\* context
Start(sources) ==
    /\ ds \in sources
    /\ disk = [exists |-> FALSE, db |-> EmptyDB]
    /\ ctx = [c \in Ctx |-> NoCtx]
    /\ setupDone = FALSE
    /\ leaked = FALSE
    /\ attrs = [c \in Ctx |-> NoAttrs]
    /\ last = Idle

\* Schema(location, setup_script, setup_file, auto_commit), which builds its
\* DataSource with schema=self
Init ==
    Start([path : {"file", ":memory:"}, setup_file : BOOLEAN,
           setup_script : BOOLEAN, auto_commit : BOOLEAN, schema : {TRUE}])

\* Schema(DataSource(location, setup_script, setup_file, auto_commit)): the
\* data source was built first, with schema=None, and Schema keeps it
InitPrebuilt ==
    Start([path : {"file", ":memory:"}, setup_file : {TRUE},
           setup_script : {TRUE}, auto_commit : BOOLEAN, schema : {FALSE}])

\* Schema.ctx(), which is ds.open(schema=self), or for an auto_commit a
\* that is given DataSource.open(auto_commit=a), entered by a with statement
Open(c, a) ==
    /\ last = Idle
    /\ ~ctx[c].inscope
    /\ LET o == ds_open(disk, Locked(c), a, a = "None")
       IN  /\ disk' = o.store
           /\ ctx' = IF o.exc = "" THEN [ctx EXCEPT ![c] = Put(o.x, TRUE)] ELSE ctx
           /\ setupDone' = (setupDone \/ (o.ran /\ o.exc = ""))
           /\ leaked' = (leaked \/ o.exc # "")
           /\ attrs' = IF o.exc = "" THEN [attrs EXCEPT ![c] = NoAttrs] ELSE attrs
           /\ last' = [op |-> "open", c |-> c, a |-> a, exc |-> o.exc,
                       ran |-> o.ran, before |-> setupDone]
    /\ UNCHANGED ds

\* the calls of context c that fail can fail: conn.commit() when close
\* commits a pending transaction, conn.close() when a connection is held
CanFail(c, fail) ==
    /\ fail = "commit" => ctx[c].conn /\ ctx[c].intxn /\ ctx[c].auto_commit
    /\ fail = "close" => ctx[c].conn

\* the end of the with block of context c, its body having raised or not:
\* ExecutionContext.__exit__, which logs an exception of close()
Exit(c, raised, fail) ==
    /\ last = Idle
    /\ ctx[c].inscope
    /\ CanFail(c, fail)
    /\ LET e == close(XOf(c), disk, fail)
       IN  /\ disk' = e.store
           /\ ctx' = [ctx EXCEPT ![c] = Put(e.x, FALSE)]
           /\ last' = [op |-> "exit", c |-> c, raised |-> raised, fail |-> fail,
                       released |-> e.released,
                       exc |-> IF raised /\ ~ExitSuppresses THEN "BodyError" ELSE "",
                       auto_commit |-> ctx[c].auto_commit,
                       pending |-> ctx[c].conn /\ ctx[c].intxn]
    /\ UNCHANGED <<ds, setupDone, leaked, attrs>>

\* ctx.commit() and ctx.close() called in the body
Commit(c) ==
    /\ last = Idle
    /\ ctx[c].inscope /\ ctx[c].conn
    /\ LET e == commit(XOf(c), disk, "")
       IN  /\ disk' = e.store
           /\ ctx' = [ctx EXCEPT ![c] = Put(e.x, TRUE)]
           /\ last' = [op |-> "commit", c |-> c, exc |-> ""]
    /\ UNCHANGED <<ds, setupDone, leaked, attrs>>

Close(c, fail) ==
    /\ last = Idle
    /\ ctx[c].inscope /\ ctx[c].conn
    /\ CanFail(c, fail)
    /\ LET e == close(XOf(c), disk, fail)
       IN  /\ disk' = e.store
           /\ ctx' = [ctx EXCEPT ![c] = Put(e.x, TRUE)]
           /\ last' = [op |-> "close", c |-> c, exc |-> e.exc, fail |-> fail,
                       released |-> e.released]
    /\ UNCHANGED <<ds, setupDone, leaked, attrs>>

\* the store is emptied or removed from outside while no connection is open
External(gone) ==
    /\ last = Idle
    /\ IsFile /\ disk.exists
    /\ \A c \in Ctx : ~ctx[c].conn
    /\ disk' = [exists |-> ~gone, db |-> EmptyDB]
    /\ last' = [op |-> "external"]
    /\ UNCHANGED <<ds, ctx, setupDone, leaked, attrs>>

\* ctx.<name>: the attribute lookup of Python on the context object, which
\* finds what the object and its class have and calls
\* ExecutionContext.__getattr__ for any other name; a new TableContext is
\* the object numbered after those the context has stored
GetAttr(c, name) ==
    /\ last = Idle
    /\ ctx[c].inscope
    /\ LET new == Cardinality({n \in Names : attrs[c][n] # 0}) + 1
           res(kind, val, table, exc) ==
               [op |-> "getattr", c |-> c, name |-> name, kind |-> kind,
                val |-> val, table |-> table, context |-> IF val = 0 THEN 0 ELSE c,
                exc |-> exc]
       IN  IF name \in OwnAttrs
           THEN /\ last' = res("own", 0, "", "")
                /\ UNCHANGED attrs
           ELSE IF attrs[c][name] # 0
           THEN /\ last' = res("TableContext", attrs[c][name], Tables[name], "")
                /\ UNCHANGED attrs
           ELSE IF ~ctx[c].schema \/ name \notin DOMAIN Tables
           THEN /\ last' = res("raise", 0, "", "AttributeError")
                /\ UNCHANGED attrs
           ELSE /\ last' = res("TableContext", new, Tables[name], "")
                /\ attrs' = [attrs EXCEPT ![c][name] = new]
    /\ UNCHANGED <<ds, disk, ctx, setupDone, leaked>>

\* the caller takes the outcome of the call
Return ==
    /\ last # Idle
    /\ last' = Idle
    /\ UNCHANGED <<ds, disk, ctx, setupDone, leaked, attrs>>

(***************************************************************************)
(* The table operations.  c is the execution context the caller passes     *)
(* (exe), 0 for none: Table's methods then run in `with                    *)
(* self._data_source.open() as exe`, which ends in __exit__.               *)
(***************************************************************************)
Callers == Ctx \cup {0}

Call(op, c, t) == [op |-> op, c |-> c, t |-> t]

\* the context the method runs on: exe, or the one DataSource.open() gives
Enter(c) ==
    IF c # 0
    THEN [exc |-> "", x |-> XOf(c), store |-> disk, need |-> FALSE, ran |-> FALSE]
    ELSE ds_open(disk, Locked(0), "None", FALSE)

\* what the caller gets and what the call did: entered (the method's body
\* ran), ran (its open ran setup scripts), schema (its context has one),
\* closed (its own context was closed)
Outcome(call, o, r, exc, closed) ==
    call @@ [kind |-> IF exc = "" /\ r.exc # "" THEN "None" ELSE r.kind,
             objs |-> r.objs, val |-> r.val, exc |-> exc, did |-> r.did,
             q |-> r.q, ps |-> r.ps, entered |-> o.exc = "", ran |-> o.ran,
             schema |-> o.x.schema,
             before |-> setupDone, closed |-> closed]

\* the method's outcome r on the context o = Enter(c): kept in exe, or
\* followed by __exit__ of the context the method opened
Perform(call, o, r) ==
    /\ last = Idle
    /\ IF call.c # 0
       THEN /\ ctx[call.c].inscope /\ ctx[call.c].conn
            /\ r.exc # "BOUND"
            /\ ctx' = [ctx EXCEPT ![call.c] = Put(r.x, TRUE)]
            /\ last' = Outcome(call, o, r, r.exc, FALSE)
            /\ UNCHANGED <<disk, setupDone, leaked>>
       ELSE /\ IF o.exc # ""
               THEN /\ disk' = o.store
                    /\ last' = Outcome(call, o, Raise(o.x, o.exc), o.exc, FALSE)
               ELSE /\ r.exc # "BOUND"
                    /\ disk' = close(r.x, o.store, "").store
                    /\ last' = Outcome(call, o, r,
                                       IF ExitSuppresses THEN "" ELSE r.exc,
                                       ~close(r.x, o.store, "").x.conn)
            /\ setupDone' = (setupDone \/ (o.ran /\ o.exc = ""))
            /\ leaked' = (leaked \/ o.exc # "")
            /\ UNCHANGED ctx
    /\ UNCHANGED <<ds, attrs>>

\* Table.select / TableContext.select
Select(c, t, where, values, columns) ==
    Perform(Call("select", c, t) @@
              [where |-> where, values |-> values, columns |-> columns,
               orderby |-> "None", limit |-> NULL],
            Enter(c), tc_select(Enter(c).x, t, where, values, columns))

\* Table.select / TableContext.select with orderby and limit given
SelectOrdered(c, t, where, values, orderby, limit) ==
    Perform(Call("select", c, t) @@
              [where |-> where, values |-> values, columns |-> NoneCols,
               orderby |-> orderby, limit |-> limit],
            Enter(c),
            select_record(Enter(c).x, t, where, values, orderby, limit, NoneCols))

\* Table.select_single / TableContext.select_single
SelectSingle(c, t, where, values, columns) ==
    Perform(Call("select_single", c, t) @@
              [where |-> where, values |-> values, columns |-> columns],
            Enter(c), tc_select_single(Enter(c).x, t, where, values, columns))

\* Table.insert / TableContext.insert
Insert(c, t, values, columns) ==
    Perform(Call("insert", c, t) @@ [values |-> values, columns |-> columns],
            Enter(c), tc_insert(Enter(c).x, t, values, columns))

\* Table.update / TableContext.update
Update(c, t, new_values, where, where_values, columns) ==
    Perform(Call("update", c, t) @@
              [new_values |-> new_values, where |-> where,
               values |-> where_values, columns |-> columns],
            Enter(c),
            tc_update(Enter(c).x, t, new_values, where, where_values, columns))

\* Table.delete / TableContext.delete
Delete(c, t, where, values) ==
    Perform(Call("delete", c, t) @@ [where |-> where, values |-> values],
            Enter(c), tc_delete(Enter(c).x, t, where, values))

\* Table.by_id / TableContext.by_id
ById(c, t, args, columns) ==
    Perform(Call("by_id", c, t) @@ [args |-> args, columns |-> columns],
            Enter(c), tc_by_id(Enter(c).x, t, args, columns))

\* Table.save / TableContext.save
Save(c, t, obj, columns) ==
    Perform(Call("save", c, t) @@
              [obj |-> obj, columns |-> columns,
               after |-> obj_after(obj, tc_save(Enter(c).x, t, obj, columns))],
            Enter(c), tc_save(Enter(c).x, t, obj, columns))

\* Table.delete_obj / TableContext.delete_obj: without exe, Table.delete_obj
\* calls self.ctx(exe).delete_obj() and leaves out obj
DeleteObj(c, t, obj) ==
    Perform(Call("delete_obj", c, t) @@ [obj |-> obj],
            Enter(c),
            IF c # 0 THEN tc_delete_obj(Enter(c).x, t, obj)
            ELSE Raise(Enter(c).x, "TypeError"))

\* ExecutionContext.insert_object and update_object, called on a context
InsertObject(c, t, obj, columns) ==
    /\ c # 0
    /\ Perform(Call("insert_object", c, t) @@
                 [obj |-> obj, columns |-> columns,
                  after |-> obj_after(obj, insert_object(Enter(c).x, t, obj, columns))],
               Enter(c), insert_object(Enter(c).x, t, obj, columns))

UpdateObject(c, t, obj, columns) ==
    /\ c # 0
    /\ Perform(Call("update_object", c, t) @@ [obj |-> obj, columns |-> columns],
               Enter(c), update_object(Enter(c).x, t, obj, columns))

(***************************************************************************)
(* The inputs of the calls.                                                *)
(***************************************************************************)
Cond(c, op) == <<[c |-> c, op |-> op]>>

\* where fragments with their values
WhereArgs ==
    {<<NoneWhere, NoneVals>>, <<Cond("ID", ">"), <<1>>>>, <<Cond("ID", "="), <<1>>>>,
     <<Cond("name", "="), <<2>>>>}

ColArgs == {NoneCols, <<"name">>}

\* the limits given to select
Limits == {0, 1}

InsertVals == {<<>>, <<1>>, <<2>>, <<NULL, 1>>, <<NULL, 2>>, <<2, 1>>, <<1, 2, 1>>}

UpdateVals == {<<2>>, <<1, 2>>, <<2, 1>>}

Objs == [ID : IdRange \cup {NULL}, name : Vals \cup {NULL}]

\* the remapping a table declares with field_map(name='content'), as the
\* diary table of the tests does with field_map(pid='ownerID',
\* text='content'): column -> field of the object
field_map == [name |-> "content"]

\* an object of a class with the remapped field, which holds another value
\* than the field named as the column
MappedObj == [ID |-> NULL, name |-> 1, content |-> 2]

\* by_id calls: the table and the identity values
IdCalls ==
    {<<t, <<i>>>> : t \in {TPerson, TPlain, TNoId, TEmptyId}, i \in IdRange}
    \cup {<<TTwoId, <<i, 1>>>> : i \in IdRange}
    \cup {<<TEmptyId, <<>>>>}

IdTables == {TPerson, TNoId, TEmptyId, TTwoId}

DoOpen == last = Idle /\ \E c \in Ctx, a \in {"None", "True", "False"} : Open(c, a)
DoExit == last = Idle /\ \E c \in Ctx, raised \in BOOLEAN : Exit(c, raised, "")
DoCommit == last = Idle /\ \E c \in Ctx : Commit(c)
DoClose == last = Idle /\ \E c \in Ctx : Close(c, "")
DoExternal == last = Idle /\ \E gone \in BOOLEAN : External(gone)
DoSelect ==
    last = Idle /\ \E c \in Callers, t \in {TPerson, TPlain}, wa \in WhereArgs,
                      cols \in ColArgs : Select(c, t, wa[1], wa[2], cols)
DoSelectNoCols ==
    last = Idle /\ \E c \in Callers : Select(c, TNoCols, NoneWhere, NoneVals, NoneCols)
DoSelectOrdered ==
    last = Idle /\ \E c \in Callers, wa \in {<<NoneWhere, NoneVals>>, <<Cond("ID", ">"), <<1>>>>},
                      orderby \in {"None", "name"}, limit \in Limits :
                      SelectOrdered(c, TPerson, wa[1], wa[2], orderby, limit)
DoSelectSingle ==
    last = Idle /\ \E c \in Callers, wa \in WhereArgs, cols \in ColArgs :
                      SelectSingle(c, TPerson, wa[1], wa[2], cols)
DoInsert ==
    last = Idle /\ \E c \in Callers, vs \in InsertVals, cols \in ColArgs \cup {<<>>} :
                      Insert(c, TPerson, vs, cols)
DoInsertNoCols ==
    last = Idle /\ \E c \in Callers, vs \in {<<>>, <<1>>} : Insert(c, TNoCols, vs, NoneCols)
DoUpdate ==
    last = Idle /\ \E c \in Callers, nv \in UpdateVals, wa \in WhereArgs,
                      cols \in ColArgs : Update(c, TPerson, nv, wa[1], wa[2], cols)
DoUpdateNoCols ==
    last = Idle /\ \E c \in Callers, tc \in {<<TNoCols, NoneCols>>, <<TPerson, <<>>>>} :
                      Update(c, tc[1], <<>>, Cond("ID", "="), <<1>>, tc[2])
DoDelete ==
    last = Idle /\ \E c \in Callers, wa \in WhereArgs \cup {<<<<>>, NoneVals>>} :
                      Delete(c, TPerson, wa[1], wa[2])
DoById ==
    last = Idle /\ \E c \in Callers, ta \in IdCalls, cols \in ColArgs :
                      ById(c, ta[1], ta[2], cols)
DoSave ==
    last = Idle /\ \E c \in Callers, t \in IdTables, obj \in Objs :
                      Save(c, t, obj, NoneCols)
DoDeleteObj ==
    last = Idle /\ \E c \in Callers, t \in IdTables, obj \in Objs : DeleteObj(c, t, obj)
DoInsertObject ==
    last = Idle /\ \E c \in Ctx, obj \in Objs, cols \in ColArgs :
                      InsertObject(c, TPerson, obj, cols)
DoInsertMapped == last = Idle /\ \E c \in Ctx : InsertObject(c, TPerson, MappedObj, NoneCols)
DoUpdateObject ==
    last = Idle /\ \E c \in Ctx, obj \in Objs, cols \in ColArgs :
                      UpdateObject(c, TPerson, obj, cols)

Next ==
    \/ DoOpen
    \/ DoExit
    \/ DoCommit
    \/ DoClose
    \/ DoExternal
    \/ Return
    \/ DoSelect
    \/ DoSelectNoCols
    \/ DoSelectOrdered
    \/ DoSelectSingle
    \/ DoInsert
    \/ DoInsertNoCols
    \/ DoUpdate
    \/ DoUpdateNoCols
    \/ DoDelete
    \/ DoById
    \/ DoSave
    \/ DoDeleteObj
    \/ DoInsertObject
    \/ DoInsertMapped
    \/ DoUpdateObject

Spec == Init /\ [][Next]_vars

\* dynamic table access on the contexts of with blocks
DoGetAttr == last = Idle /\ \E c \in Ctx, name \in Names : GetAttr(c, name)

NextAttr ==
    \/ DoOpen
    \/ DoExit
    \/ DoClose
    \/ DoGetAttr
    \/ Return

\* the library under a Schema that was handed its DataSource
SpecPrebuilt == InitPrebuilt /\ [][Next]_vars

SpecAttr == Init /\ [][NextAttr]_vars

\* contexts whose conn.commit() or conn.close() raises when they close
DoExitFailing ==
    last = Idle /\ \E c \in Ctx, raised \in BOOLEAN, fail \in Fails \ {""} :
                      Exit(c, raised, fail)
DoCloseFailing == last = Idle /\ \E c \in Ctx, fail \in Fails \ {""} : Close(c, fail)

NextFail ==
    \/ DoOpen
    \/ DoExit
    \/ DoExitFailing
    \/ DoCommit
    \/ DoClose
    \/ DoCloseFailing
    \/ DoInsert
    \/ Return

SpecFail == Init /\ [][NextFail]_vars

\* the shape of the state
TypeOK ==
    /\ disk.exists \in BOOLEAN
    /\ disk.db.hasTable \in BOOLEAN
    /\ \A r \in disk.db.rows : r.ID \in IdRange
    /\ ~disk.db.hasTable => disk.db.rows = {}
    /\ \A c \in Ctx : ctx[c].conn => ctx[c].inscope
    /\ leaked \in BOOLEAN
    /\ attrs \in [Ctx -> [Names -> 0 .. Cardinality(Names)]]

(***************************************************************************)
(* Properties.                                                             *)
(***************************************************************************)
TableOps ==
    {"select", "select_single", "insert", "update", "delete", "by_id", "save",
     "delete_obj"}

\* the call l went through DataSource.open
Opens(l) == l.op = "open" \/ (l.op \in TableOps /\ l.c = 0)

\* the store has content: the file exists and its size is not zero
HasContent(store) == IsFile /\ store.exists /\ store.db # EmptyDB

\* no row of db satisfies the where fragment with its values
NoRow(db, where, values) ==
    ~\E r \in db.rows : Matches(r, IF TruthyWhere(where) THEN where ELSE <<>>,
                                IF TruthyVals(values) THEN values ELSE <<>>)

\* C1: at the end of a with block, whether its body raised or not, the
\* pending transaction of the context is written to the store exactly when
\* the context's auto_commit is true, the context holds no connection
\* afterwards, and an exception of the body still reaches the caller.
C1_ScopeRelease ==
    [][\A c \in Ctx :
          (last'.op = "exit" /\ last'.c = c) =>
              /\ ~ctx'[c].conn
              /\ disk'.db = IF IsFile /\ ctx[c].conn /\ ctx[c].intxn
                               /\ ctx[c].auto_commit
                            THEN ctx[c].db ELSE disk.db
              /\ (last'.raised => last'.exc = "BodyError")]_vars

\* a with block whose body wrote and then raised has ended: the write is in
\* the file and the connection is gone
C1_Witness ==
    /\ last.op = "exit" /\ last.raised /\ last.pending /\ last.auto_commit
    /\ IsFile /\ disk.db.rows # {}
    /\ ~ctx[last.c].conn

\* C2: save ends in exactly one of update_object and insert_object, chosen
\* by the id-column fields of obj alone: update_object if and only if every
\* declared id column holds a truthy value on obj, insert_object otherwise.
C2_SaveChoice ==
    (last.op = "save" /\ last.entered /\ last.t.id_cols # NoneCols) =>
        LET present == \A i \in 1..Len(last.t.id_cols) :
                           TruthyVal(last.obj[last.t.id_cols[i]])
        IN  /\ last.did = IF present THEN "update_object" ELSE "insert_object"
            /\ last.q.verb = IF present THEN "UPDATE" ELSE "INSERT"

\* save of an object that has one of two id columns set has inserted
C2_Witness ==
    /\ last.op = "save" /\ last.entered /\ last.t = TTwoId
    /\ last.obj.ID # NULL /\ last.obj.name = NULL
    /\ last.did = "insert_object" /\ last.q.verb = "INSERT"

\* C3: an open that finds the store with content (the file exists and its
\* size is not zero) runs no setup script, however many opens there are;
\* setup is run only by an open that finds the store absent or of size zero.
C3_NoSetupOnContent ==
    [][(Opens(last') /\ last'.ran) => ~HasContent(disk)]_vars

\* an open of a store that an earlier open set up has run no setup script
C3_Witness ==
    /\ last.op = "open" /\ last.exc = "" /\ ~last.ran /\ last.before
    /\ ds.setup_file /\ ds.setup_script
    /\ HasContent(disk)

\* C4, as claimed: over the opens of one file store, with the store emptied
\* from outside in between, setup is run at most once: an open that runs
\* setup is never preceded by an open that ran it.
C4_SetupAtMostOnce == (IsFile /\ Opens(last) /\ last.ran) => ~last.before

\* C4, amended: after an open has run setup on the file store, a later open
\* runs the setup scripts exactly when it finds the store absent or of size
\* zero: never while the store keeps its content, and again once the store
\* has been emptied or removed from outside.
C4_SetupFollowsContent ==
    [][(IsFile /\ setupDone /\ Opens(last')) =>
          (last'.ran <=> ~HasContent(disk))]_vars

\* an open after the store was emptied from outside has run setup again
C4_Witness ==
    /\ IsFile /\ last.op = "open" /\ last.ran /\ last.before /\ last.exc = ""
    /\ HasContent(disk)

\* C5: the statement insert builds for K values, 0 <= K <= N, N the length
\* of the column list (the explicit one if given, the table's otherwise),
\* targets exactly the last K columns of the list in order and carries K
\* placeholders.
C5_RightAligned ==
    (last.op = "insert" /\ last.entered) =>
        LET cols == IF TruthyCols(last.columns) THEN last.columns
                    ELSE last.t.columns
            K == Len(last.values)
            N == Len(cols)
        IN  K <= N => /\ last.q.cols = SubSeq(cols, N - K + 1, N)
                      /\ last.q.nph = K

\* C6: after insert_object or save has inserted an object without identity
\* into the table whose one id column the engine generates, by_id with the
\* identity the insert returned, reading the store the insert wrote (the
\* same context, or the file of a committing data source), returns an object
\* whose id field is that identity and whose other field is the inserted one.
C6_RoundTrip ==
    (/\ last.op \in {"insert_object", "save"}
     /\ last.t = TPerson /\ last.obj.ID = NULL
     /\ last.exc = "" /\ last.kind = "int"
     /\ (last.c = 0 => IsFile /\ ds.auto_commit)) =>
        LET got == tc_by_id(Enter(last.c).x, TPerson, <<last.val>>, NoneCols)
        IN  /\ got.exc = "" /\ got.kind = "obj"
            /\ got.objs[1].ID = last.val
            /\ got.objs[1].name = last.obj.name

\* a save without context has inserted into the file, and by_id finds the
\* object under the identity save returned
C6_Witness ==
    /\ last.op = "save" /\ last.c = 0 /\ IsFile /\ ds.auto_commit
    /\ last.t = TPerson /\ last.obj = [ID |-> NULL, name |-> 2]
    /\ last.exc = "" /\ last.kind = "int" /\ last.val = 2
    /\ tc_by_id(Enter(0).x, TPerson, <<2>>, NoneCols).objs = <<Row(2, 2)>>

\* C7: on an existing table, when no row satisfies the predicate, select
\* returns the empty sequence and select_single returns None; when no row
\* has the identity (one value per id column), by_id returns None; none of
\* the three raises.  (The table is registered with columns: a statement
\* without columns is the case of C14.)
C7_NoMatchNoError ==
    [][/\ (/\ last'.op = "select" /\ last'.entered
           /\ last'.t.columns # <<>>
           /\ Enter(last'.c).x.db.hasTable
           /\ NoRow(Enter(last'.c).x.db, last'.where, last'.values)) =>
              (last'.exc = "" /\ last'.kind = "list" /\ last'.objs = <<>>)
       /\ (/\ last'.op = "select_single" /\ last'.entered
           /\ Enter(last'.c).x.db.hasTable
           /\ NoRow(Enter(last'.c).x.db, last'.where, last'.values)) =>
              (last'.exc = "" /\ last'.kind = "None")
       /\ (/\ last'.op = "by_id" /\ last'.entered
           /\ Enter(last'.c).x.db.hasTable
           /\ last'.t.id_cols # NoneCols
           /\ Len(last'.args) = Len(last'.t.id_cols)
           /\ NoRow(Enter(last'.c).x.db, IdWhere(last'.t), last'.args)) =>
              (last'.exc = "" /\ last'.kind = "None")]_vars

\* select_single on a table that has rows, none of them matching, has
\* returned None
C7_Witness ==
    /\ last.op = "select_single" /\ last.entered /\ last.c # 0
    /\ last.where = Cond("name", "=")
    /\ View(last.c).rows # {}
    /\ last.exc = "" /\ last.kind = "None"

\* C8, for delete_obj: called without a context, the method gives the
\* result, and leaves the store, that TableContext.delete_obj with the same
\* object gives on the context it opened and then closed.
C8_DeleteObjEquivalent ==
    [][(last'.op = "delete_obj" /\ last'.c = 0 /\ last'.entered) =>
          /\ last'.exc = tc_delete_obj(Enter(0).x, last'.t, last'.obj).exc
          /\ disk' = close(tc_delete_obj(Enter(0).x, last'.t, last'.obj).x,
                           Enter(0).store, "").store]_vars

\* C9: delete with an empty or absent where, on an existing table, ends
\* without error and leaves the table without rows.
C9_UnconditionalDelete ==
    (/\ last.op = "delete" /\ last.c # 0 /\ ~TruthyWhere(last.where)
     /\ View(last.c).hasTable /\ ~Locked(last.c)) =>
        (last.exc = "" /\ View(last.c).rows = {})

\* C10: update executes UPDATE with one SET placeholder per column of the
\* column list (the table's when none is given) in list order, and with the
\* parameters new_values followed by where_values (new_values alone when
\* where_values is empty or absent); so in every row the where values
\* select, the i-th column takes the i-th new value, and no other row
\* changes.
C10_UpdateBinding ==
    [][(last'.op = "update" /\ last'.entered) =>
          LET cols == IF last'.columns = NoneCols THEN last'.t.columns
                      ELSE last'.columns
              where == IF TruthyWhere(last'.where) THEN last'.where ELSE <<>>
              wv == IF TruthyVals(last'.values) THEN last'.values ELSE <<>>
              set(r) == [f \in DOMAIN r |->
                           IF \E i \in 1..Len(cols) : cols[i] = f
                           THEN last'.new_values[CHOOSE i \in 1..Len(cols) : cols[i] = f]
                           ELSE r[f]]
          IN  /\ last'.q.verb = "UPDATE" /\ last'.q.cols = cols
              /\ last'.q.where = where
              /\ last'.ps = last'.new_values \o wv
              /\ \A c \in Ctx :
                    (last'.c = c /\ last'.exc = "") =>
                        View(c)'.rows =
                            {IF Matches(r, where, wv) THEN set(r) ELSE r :
                                r \in View(c).rows}]_vars

\* an update with two new values and a where value has changed the row the
\* where value selects
C10_Witness ==
    /\ last.op = "update" /\ last.c # 0 /\ last.exc = ""
    /\ last.new_values = <<1, 2>> /\ last.columns = NoneCols
    /\ last.where = Cond("ID", "=") /\ last.values = <<1>>
    /\ last.ps = <<1, 2, 1>>
    /\ Row(1, 2) \in View(last.c).rows

\* C11: whenever no with block is active and no call is in progress, no
\* connection that DataSource.open made is open: not one held by a context,
\* and not one of an open that raised while running the setup scripts.
C11_NoOpenConnection ==
    (last = Idle /\ \A c \in Ctx : ~ctx[c].inscope) =>
        (~leaked /\ \A c \in Ctx : ~ctx[c].conn)

\* C12, for select: called without a context on a Schema that was handed an
\* already-built DataSource, select gives what it gives on a context with
\* the schema bound, as a Schema built from the location string binds it.
C12_PrebuiltDataSource ==
    [][(last'.op = "select" /\ last'.c = 0 /\ last'.entered) =>
          /\ last'.exc = tc_select([Enter(0).x EXCEPT !.schema = TRUE], last'.t,
                                   last'.where, last'.values, last'.columns).exc
          /\ last'.objs = tc_select([Enter(0).x EXCEPT !.schema = TRUE], last'.t,
                                    last'.where, last'.values, last'.columns).objs]_vars

\* C13: for every name or alias registered in the schema a context is
\* bound to, the first access of the name on the context yields a table
\* context pairing the name's table with the context and stores it, and
\* every later access yields that stored table context; the access of any
\* other name raises AttributeError and stores nothing.
C13_DynamicAccess ==
    [][\A c \in Ctx :
          (last'.op = "getattr" /\ last'.c = c) =>
              IF last'.name \in DOMAIN Tables /\ ctx[c].schema
              THEN /\ last'.exc = "" /\ last'.kind = "TableContext"
                   /\ last'.table = Tables[last'.name] /\ last'.context = c
                   /\ attrs'[c][last'.name] = last'.val
                   /\ attrs[c][last'.name] # 0 => attrs' = attrs
              ELSE /\ last'.exc = "AttributeError"
                   /\ attrs' = attrs]_vars

\* C14: when the column list a statement is built with, after the default to
\* the table's columns, is empty, select, insert and update end in
\* InvalidSchema and no statement with an empty column list is built.
C14_InvalidSchema ==
    LET defaulted == IF last.op = "update" THEN last.columns = NoneCols
                     ELSE ~TruthyCols(last.columns)
        effective == IF defaulted THEN last.t.columns ELSE last.columns
    IN  (/\ last.op \in {"select", "insert", "update"}
         /\ last.entered
         /\ effective = <<>>) =>
            (last.exc = "InvalidSchema" /\ last.q = NoQuery)

\* C15: when conn.commit() or conn.close() fails while a context closes, in
\* close() or at the end of its with block, no exception of the failure
\* reaches the caller, an exception of the body still does, and the context
\* holds no connection afterwards.
C15_ExitFailureSwallowed ==
    [][\A c \in Ctx :
          (last'.op \in {"exit", "close"} /\ last'.c = c /\ last'.fail # "") =>
              /\ last'.exc = IF last'.op = "exit" /\ last'.raised
                             THEN "BodyError" ELSE ""
              /\ ~ctx'[c].conn]_vars

\* a with block whose body wrote and raised has ended with a failing commit:
\* the body's exception is the outcome, the write is lost and the
\* connection is gone
C15_Witness ==
    /\ last.op = "exit" /\ last.fail = "commit" /\ last.raised /\ last.pending
    /\ last.exc = "BodyError"
    /\ ~ctx[last.c].conn

\* what setup makes of an empty store: the setup file, then the setup script
FreshDB ==
    LET f == IF ds.setup_file THEN RunSetupFile(EmptyDB).db ELSE EmptyDB
    IN  IF ds.setup_script THEN RunSetupScript(f).db ELSE f

\* C16: the location ":memory:" is never taken for populated: every open,
\* of a with block or of a context-less call, runs the setup that is
\* configured, on a store of its own that starts empty; what one context
\* wrote is not seen through another, and a context-less call leaves what
\* the open contexts see as it was.
C16_MemoryAlwaysFresh ==
    [][~IsFile =>
          /\ \A c \in Ctx :
                (last'.op = "open" /\ last'.c = c) =>
                    /\ last'.ran = (ds.setup_file \/ ds.setup_script)
                    /\ last'.exc = "" => View(c)' = FreshDB
          /\ (last'.op \in TableOps /\ last'.c = 0) =>
                /\ last'.ran = (ds.setup_file \/ ds.setup_script)
                /\ \A c \in Ctx : View(c)' = View(c)
          /\ (/\ last'.op = "select" /\ last'.c = 0 /\ last'.exc = ""
              /\ last'.where = NoneWhere) =>
                Len(last'.objs) = Cardinality(FreshDB.rows)
          /\ disk' = disk]_vars

\* in memory, a context holds two rows, the one of setup and one it wrote,
\* and a context-less select has returned the one row of setup alone
C16_Witness ==
    /\ ~IsFile
    /\ last.op = "select" /\ last.c = 0 /\ last.exc = "" /\ last.where = NoneWhere
    /\ Len(last.objs) = 1
    /\ \E c \in Ctx : ctx[c].conn /\ Cardinality(ctx[c].db.rows) = 2

\* C17: with a remapping of column names to object fields declared for a
\* table, every object mapped from a row of the table holds each column's
\* value in the field the column is remapped to, and insert_object binds to
\* each column the value of the field the column is remapped to.
C17_FieldRemapping ==
    LET field(col) == IF col \in DOMAIN field_map THEN field_map[col] ELSE col
    IN  /\ (last.op = "select" /\ last.t = TPerson /\ last.exc = "") =>
               \A i \in 1..Len(last.objs) :
                  \A j \in 1..Len(last.q.cols) :
                     /\ field(last.q.cols[j]) \in DOMAIN last.objs[i]
                     /\ last.where = Cond(last.q.cols[j], "=") =>
                            last.objs[i][field(last.q.cols[j])] = last.values[1]
        /\ (last.op = "insert_object" /\ last.obj = MappedObj) =>
               \A j \in 1..Len(last.q.cols) :
                  last.ps[j] = last.obj[field(last.q.cols[j])]

\* C18: on a table declared with an empty id_cols, or with none, by_id,
\* save, update_object and delete_obj return no row and leave the rows of
\* the table as they were: each raises or returns None.
C18_NoIdentityOps ==
    [][(/\ last'.op \in {"by_id", "save", "update_object", "delete_obj"}
        /\ last'.t \in {TEmptyId, TNoId}
        /\ last'.entered) =>
          /\ last'.kind \in {"raise", "None"}
          /\ \A c \in Ctx : last'.c = c => View(c)' = View(c)
          /\ last'.c = 0 => disk'.db = Enter(0).store.db]_vars

\* C19: an open that finds the store absent or empty runs the setup file
\* first and the setup script second, each only if it was given, and the
\* caller gets the context after both: with both given the context sees the
\* table of the file holding the row of the script, with the file alone the
\* empty table, with the script alone the open ends in the error of a
\* script that meets no table; a context-less call with both given reaches
\* its statement.
C19_SetupOrder ==
    [][/\ \A c \in Ctx :
             (last'.op = "open" /\ last'.c = c /\ last'.ran) =>
                 /\ (ds.setup_file /\ ds.setup_script) =>
                        /\ last'.exc = ""
                        /\ View(c)' = [hasTable |-> TRUE, rows |-> {Row(1, 1)}]
                 /\ (ds.setup_file /\ ~ds.setup_script) =>
                        /\ last'.exc = ""
                        /\ View(c)' = [hasTable |-> TRUE, rows |-> {}]
                 /\ (~ds.setup_file /\ ds.setup_script) =>
                        /\ last'.exc = "OperationalError"
                        /\ ~ctx'[c].inscope
       /\ (/\ last'.op \in TableOps /\ last'.c = 0 /\ last'.ran
           /\ ds.setup_file) => last'.entered]_vars

\* an open with the setup file and the setup script given has run both: the
\* new context sees the table with the one row of the script
C19_Witness ==
    /\ last.op = "open" /\ last.ran /\ last.exc = ""
    /\ ds.setup_file /\ ds.setup_script
    /\ View(last.c) = [hasTable |-> TRUE, rows |-> {Row(1, 1)}]

\* C20: update_object, called on a context or reached through save, sets
\* the listed columns (every column of the table when none is listed) to the
\* fields of obj in the rows whose id columns hold the values of obj's id
\* fields, and changes nothing else: the other columns of those rows and all
\* other rows stay as they were, and nothing changes when it raises.
C20_UpdateObjectFrame ==
    [][\A c \in Ctx :
          (/\ last'.op \in {"update_object", "save"} /\ last'.c = c
           /\ last'.did = "update_object"
           /\ last'.t.id_cols # NoneCols) =>
              LET t == last'.t
                  obj == last'.obj
                  cols == IF ~TruthyCols(last'.columns) THEN t.columns
                          ELSE last'.columns
                  same(r) == \A i \in 1..Len(t.id_cols) :
                                 /\ r[t.id_cols[i]] # NULL
                                 /\ r[t.id_cols[i]] = obj[t.id_cols[i]]
                  set(r) == [f \in DOMAIN r |->
                               IF f \in Range(cols) THEN obj[f] ELSE r[f]]
              IN  /\ last'.exc = "" =>
                         View(c)'.rows =
                             {IF same(r) THEN set(r) ELSE r : r \in View(c).rows}
                  /\ last'.exc # "" => View(c)' = View(c)]_vars

\* update_object with the one column name listed has run on a table of two
\* rows: the row of obj's identity holds obj's name, the other row is as
\* it was inserted
C20_Witness ==
    /\ last.op = "update_object" /\ last.exc = ""
    /\ last.columns = <<"name">> /\ last.obj = [ID |-> 1, name |-> 2]
    /\ View(last.c).rows = {Row(1, 2), Row(2, 1)}

C22_SelectClauses ==
    (last.op = "select" /\ last.entered /\ last.t = TPerson) =>
        /\ last.q.clauses =
               (IF last.where # NoneWhere THEN <<"WHERE">> ELSE <<>>)
               \o (IF last.orderby # "None" THEN <<"ORDER BY">> ELSE <<>>)
               \o (IF last.limit # NULL THEN <<"LIMIT">> ELSE <<>>)
        /\ (last.exc = "" /\ last.limit # NULL) => Len(last.objs) <= last.limit

\* C23: select, select_single and by_id on a table with a record type,
\* given a column subset, return objects of the record type's fields in
\* which each selected column holds the value of a row that satisfies the
\* condition of the call and every other field holds the value of the
\* zero-argument constructor; select returns one such object per row.
C23_ColumnSubset ==
    [][(/\ last'.op \in {"select", "select_single", "by_id"}
        /\ last'.entered /\ last'.exc = ""
        /\ last'.t.proto /\ TruthyCols(last'.columns)) =>
          LET where == IF last'.op = "by_id" THEN IdWhere(last'.t)
                       ELSE IF TruthyWhere(last'.where) THEN last'.where ELSE <<>>
              given == IF last'.op = "by_id" THEN last'.args ELSE last'.values
              vs == IF TruthyVals(given) THEN given ELSE <<>>
              hit == {r \in Enter(last'.c).x.db.rows : Matches(r, where, vs)}
              partial(r) == [f \in DOMAIN ProtoNew |->
                               IF f \in Range(last'.columns) THEN r[f]
                               ELSE ProtoNew[f]]
          IN  /\ Range(last'.objs) \subseteq {partial(r) : r \in hit}
              /\ last'.op = "select" =>
                     /\ Range(last'.objs) = {partial(r) : r \in hit}
                     /\ Len(last'.objs) = Cardinality(hit)
              /\ last'.op # "select" =>
                     Len(last'.objs) = IF hit = {} THEN 0 ELSE 1]_vars

\* select_single with the one column name selected has returned an object
\* with the name of the row and the identity of the constructor
C23_Witness ==
    /\ last.op = "select_single" /\ last.exc = "" /\ last.kind = "obj"
    /\ last.columns = <<"name">>
    /\ last.objs = <<[ID |-> NULL, name |-> 2]>>

\* C24: save and insert_object leave the object they are given as it was;
\* so after a save that inserted, the id fields of the object are as falsy
\* as before and a second save of the object on the same context inserts
\* again, which leaves two rows more than before the first save, and does
\* not update.
C24_ObjectUntouched ==
    [][\A c \in Ctx :
          (last'.op \in {"save", "insert_object"} /\ last'.c = c) =>
              /\ last'.after = last'.obj
              /\ (/\ last'.op = "save" /\ last'.did = "insert_object"
                  /\ last'.exc = "") =>
                     /\ ~Existed(last'.after, last'.t.id_cols, Len(last'.t.id_cols))
                     /\ tc_save(XOf(c)', last'.t, last'.after, NoneCols).did
                            = "insert_object"
                     /\ tc_save(XOf(c)', last'.t, last'.after, NoneCols).exc = "" =>
                            Cardinality(tc_save(XOf(c)', last'.t, last'.after,
                                                NoneCols).x.db.rows)
                                = Cardinality(View(c).rows) + 2]_vars

\* the second save of an object without identity has inserted a second row
\* of the object's name
C24_Witness ==
    /\ last.op = "save" /\ last.c # 0 /\ last.t = TPerson
    /\ last.obj = [ID |-> NULL, name |-> 2] /\ last.after = last.obj
    /\ last.did = "insert_object" /\ last.exc = "" /\ last.val = 2
    /\ View(last.c).rows = {Row(1, 2), Row(2, 2)}

====
